---------------------------- MODULE Spec2Model ----------------------------
(***************************************************************************)
(* Job-Application-Tracker: the REST API of application_app                *)
(* (CompanyViewSet, ContactViewSet, ApplicationViewSet, NoteViewSet and    *)
(* their serializers) over the four tables of models.py.                   *)
(*                                                                         *)
(* The database db is the four tables, each a function from the primary    *)
(* keys of its rows to the row, the tables' key sequences and the clock.   *)
(* Primary keys come from a per-table AUTOINCREMENT sequence (Django's     *)
(* AutoField on its default SQLite backend): a fresh key is one more than  *)
(* the largest key the table ever held, and an explicitly written key      *)
(* raises the sequence to it.  Every ORM write is its own transaction      *)
(* (Django's autocommit): no handler of views.py or serializers.py opens   *)
(* transaction.atomic().                                                   *)
(*                                                                         *)
(* Every request handler is an operator from the database and the request  *)
(* to the response and the database it leaves; the handler's action        *)
(* commits that database.  A response is [status, errors, ids, nested]:    *)
(* the HTTP status, the fields a validation error names, the primary keys  *)
(* of the records in the body and the companies shown nested in it.        *)
(***************************************************************************)
EXTENDS Integers, Sequences, FiniteSets, TLC

(* ------------------------------ bounds -------------------------------- *)

\* Rows the key sequences hand out (keys 1..Max).
MaxCompany == 2
MaxContact == 1
MaxApplication == 2
\* Specification Spec (the whole API from an empty database): the largest
\* note key and the number of notes ever inserted.
ApiMaxNote == 1
ApiMaxClock == 1
\* Specifications SpecNotes and SpecSteps (notes of two existing
\* applications): the same, and the longest "notes" list of a payload.
MaxNote == 2
MaxClock == 2
MaxNotesLen == 2

(* --------------------------- value domains ---------------------------- *)

Users == {"alice", "bob"}
\* A request without a token, or with a token of no user.
Anonymous == "<anonymous>"
\* Who a request may come from.
Credentials == Users \cup {Anonymous}
Names == {"acme", "initech"}
JobTitles == {"dev", "ops"}
Texts == {"a", "b"}

\* A key missing from a request payload (for a note descriptor's id also an
\* explicit null: note_data.get('id', None) yields None for both).
NoKey == -1
\* Application.contact is nullable: the NULL reference.
NullRef == 0
\* An explicit null where a payload may also leave the key out.
NullKey == -2
\* A note descriptor's text key missing from the payload.
NoText == "<no text>"
\* The empty string as the text of a note.
Blank == ""
\* An Application payload's job_title key missing.
NoTitle == "<no job_title>"
\* A payload without a user key; a row whose user is NULL.
NoUser == "<no user>"
\* An Application payload's status key missing.
NoStatus == "<no status>"
\* A status field that takes any string.
STATUS_CHOICES_open ==
    {"DRAFT", "APPLIED", "INTERVIEW", "OFFER", "REJECTED", "WITHDRAWN",
     "INVALID_STATUS_VALUE"}

\* Application.STATUS_CHOICES
STATUS_CHOICES == {"DRAFT", "APPLIED", "INTERVIEW", "OFFER", "REJECTED", "WITHDRAWN"}

CompanyIds == 1..MaxCompany
ContactIds == 1..MaxContact
ApplicationIds == 1..MaxApplication

VARIABLES
    companies,      \* Company rows:     id -> [user, name]
    contacts,       \* Contact rows:     id -> [user, company]
    applications,   \* Application rows: id -> [user, company, contact, job_title, status]
    notes,          \* Note rows:        id -> [application, text, created_at]
    seq,            \* the four AUTOINCREMENT sequences
    clock,          \* timestamps handed out so far (auto_now_add)
    upd,            \* an Application update running statement by statement
    accounts,       \* auth.User rows:   id -> [username, email, password]
    tokens,         \* authtoken rows:   user id -> key
    reg             \* registration requests under way, one per connection

vars == <<companies, contacts, applications, notes, seq, clock, upd,
          accounts, tokens, reg>>

\* The tables and requests of user_auth_app.
auth == <<accounts, tokens, reg>>

\* The database as one value.
DB == [companies |-> companies, contacts |-> contacts,
       applications |-> applications, notes |-> notes, seq |-> seq,
       clock |-> clock]

(* ------------------------------ helpers ------------------------------- *)

Put(f, k, v) == [x \in DOMAIN f \cup {k} |-> IF x = k THEN v ELSE f[x]]

Remove(f, S) == [x \in DOMAIN f \ S |-> f[x]]

Max(a, b) == IF a >= b THEN a ELSE b

\* What a handler returns: the response and the database it leaves.
Result(db, status, errors, ids, nested) ==
    [status |-> status, errors |-> errors, ids |-> ids, nested |-> nested,
     db |-> db]

(* --------------------------- authentication -------------------------- *)

\* APIView.initial passing the request on without authenticating it.
APIView_initial_open(db, cred, r) == r

\* APIView.initial of the four viewsets, each with authentication_classes =
\* [TokenAuthentication] and permission_classes = [IsAuthenticated]: a
\* request that authenticates as no user is answered 401 before the handler
\* (whose result is r) runs.
APIView_initial(db, cred, r) ==
    IF cred \notin Users
    THEN Result(db, "401_UNAUTHORIZED", {}, {}, {})
    ELSE r

(* ------------------------- on_delete collectors ----------------------- *)

\* Contact.company, Application.company and Note.application are
\* on_delete=CASCADE; Application.contact is on_delete=SET_NULL.
CascadeContacts(db, cs) ==
    {c \in DOMAIN db.contacts : db.contacts[c].company \in cs}

CascadeApplications(db, cs) ==
    {a \in DOMAIN db.applications : db.applications[a].company \in cs}

\* Note.application without a cascade: no note follows its Application.
CascadeNotes_none(db, as) == {}

CascadeNotes(db, as) ==
    {n \in DOMAIN db.notes : db.notes[n].application \in as}

\* Application.contact as a cascading reference: the Applications go too.
SetNullContact_cascade(apps, gone) ==
    Remove(apps, {a \in DOMAIN apps : apps[a].contact \in gone})

SetNullContact(apps, gone) ==
    [a \in DOMAIN apps |->
        IF apps[a].contact \in gone
        THEN [apps[a] EXCEPT !.contact = NullRef]
        ELSE apps[a]]

(* ------------------------------ Company ------------------------------- *)

\* save() taking the owner from the payload when it names one.
Perform_create_user_from_payload(u, payload_user) ==
    IF payload_user = NoUser THEN u ELSE payload_user

\* perform_create of the Company, Contact and Application viewsets:
\* serializer.save(user=self.request.user).  "user" is no field of the three
\* serializers, so the value a payload carries under that key (NoUser: none)
\* never reaches validated_data.
Perform_create_user(u, payload_user) == u

\* An update taking the owner from the payload when it names one.
Perform_update_user_from_payload(owner, payload_user) ==
    IF payload_user = NoUser THEN owner ELSE payload_user

\* serializer.save() of an update: ModelSerializer.update sets the validated
\* keys on the instance, and "user" is none of them: the row keeps its owner
\* whatever the payload carries under that key.
Perform_update_user(owner, payload_user) == owner

\* CompanyViewSet.get_queryset: queryset.filter(user=request.user)
Company_get_queryset(db, u) ==
    {c \in DOMAIN db.companies : db.companies[c].user = u}

\* Meta.unique_together = ('user', 'name'), enforced by the database only:
\* CompanySerializer has no user field, so it builds no validator for it.
\* Company.user is null=True, and a UNIQUE index never takes two NULLs for
\* equal.
Company_unique_violation(db, u, name, self) ==
    /\ u # NoUser
    /\ \E c \in DOMAIN db.companies \ {self} :
          db.companies[c].user = u /\ db.companies[c].name = name

Company_list(db, u) ==
    Result(db, "200_OK", {}, Company_get_queryset(db, u), {})

\* A retrieve that looks the row up first and checks its owner afterwards.
Company_retrieve_forbidden(db, u, pk) ==
    IF pk \notin DOMAIN db.companies
    THEN Result(db, "404_NOT_FOUND", {}, {}, {})
    ELSE IF db.companies[pk].user # u
    THEN Result(db, "403_FORBIDDEN", {}, {}, {})
    ELSE Result(db, "200_OK", {}, {pk}, {})

Company_retrieve(db, u, pk) ==
    IF pk \in Company_get_queryset(db, u)
    THEN Result(db, "200_OK", {}, {pk}, {})
    ELSE Result(db, "404_NOT_FOUND", {}, {}, {})

\* CompanyViewSet.perform_create: serializer.save(user=request.user)
Company_create(db, u, name, payload_user) ==
    IF Company_unique_violation(db, u, name, NoKey)
    THEN Result(db, "500_INTEGRITY_ERROR", {}, {}, {})
    ELSE LET id == db.seq.company + 1 IN
         Result([db EXCEPT
                    !.companies = Put(@, id,
                        [user |-> Perform_create_user(u, payload_user),
                         name |-> name]),
                    !.seq.company = id],
                "201_CREATED", {}, {id}, {})

\* UpdateModelMixin.update on CompanyViewSet: get_object() through
\* get_queryset, then the serializer's save().
\* payload_user is what the body carries under "user" (NoUser: nothing).
Company_update_payload(db, u, pk, name, payload_user) ==
    IF pk \notin Company_get_queryset(db, u)
    THEN Result(db, "404_NOT_FOUND", {}, {}, {})
    ELSE IF Company_unique_violation(db, u, name, pk)
    THEN Result(db, "500_INTEGRITY_ERROR", {}, {}, {})
    ELSE Result([db EXCEPT
                    !.companies[pk].name = name,
                    !.companies[pk].user = Perform_update_user(@, payload_user)],
                "200_OK", {}, {pk}, {})

\* The same for a body without the key "user".
Company_update(db, u, pk, name) == Company_update_payload(db, u, pk, name, NoUser)

\* DestroyModelMixin.destroy on CompanyViewSet, with the cascades of models.py.
Company_destroy(db, u, pk) ==
    IF pk \notin Company_get_queryset(db, u)
    THEN Result(db, "404_NOT_FOUND", {}, {}, {})
    ELSE LET cs == CascadeContacts(db, {pk})
             as == CascadeApplications(db, {pk})
         IN Result([db EXCEPT
                       !.companies = Remove(@, {pk}),
                       !.contacts = Remove(@, cs),
                       !.applications = SetNullContact(Remove(@, as), cs),
                       !.notes = Remove(@, CascadeNotes(db, as))],
                   "204_NO_CONTENT", {}, {}, {})

\* One pass of the companies loop of import_data's Command.handle over the
\* item [id, user_id, name]: user is the user of pk user_id, or None when
\* user_id is missing, null or 0; update_or_create(id=item['id'],
\* defaults=item) then rewrites the row of that id or inserts it under that
\* id.  An IntegrityError ends the command and leaves the row unwritten.
Import_company(db, id, user_id, name) ==
    IF Company_unique_violation(db, user_id, name, id)
    THEN db
    ELSE [db EXCEPT !.companies = Put(@, id, [user |-> user_id, name |-> name]),
                    !.seq.company = Max(@, id)]

(* ------------------------------ Contact ------------------------------- *)

\* ContactViewSet.get_queryset: queryset.filter(user=request.user), narrowed
\* by the company_id query parameter when it is given (NoKey: missing or the
\* empty string, the only falsy values of a query parameter).
Contact_get_queryset(db, u, company_id) ==
    {c \in DOMAIN db.contacts :
        /\ db.contacts[c].user = u
        /\ company_id # NoKey => db.contacts[c].company = company_id}

\* ContactSerializer.company_id:
\* PrimaryKeyRelatedField(queryset=Company.objects.all(), source='company')
Contact_company_id_queryset(db, u) == DOMAIN db.companies

\* The nested, read-only CompanySerializer of a Contact body.
Contact_nested(db, cs) == {db.contacts[c].company : c \in cs}

Contact_list(db, u, company_id) ==
    LET qs == Contact_get_queryset(db, u, company_id) IN
    Result(db, "200_OK", {}, qs, Contact_nested(db, qs))

Contact_retrieve(db, u, pk) ==
    IF pk \in Contact_get_queryset(db, u, NoKey)
    THEN Result(db, "200_OK", {}, {pk}, Contact_nested(db, {pk}))
    ELSE Result(db, "404_NOT_FOUND", {}, {}, {})

\* ContactViewSet.perform_create: serializer.save(user=request.user)
Contact_create(db, u, company_id, payload_user) ==
    IF company_id \notin Contact_company_id_queryset(db, u)
    THEN Result(db, "400_BAD_REQUEST", {"company_id"}, {}, {})
    ELSE LET id == db.seq.contact + 1 IN
         Result([db EXCEPT
                    !.contacts = Put(@, id,
                        [user |-> Perform_create_user(u, payload_user),
                         company |-> company_id]),
                    !.seq.contact = id],
                "201_CREATED", {}, {id}, {company_id})

\* UpdateModelMixin.update on ContactViewSet; payload_user is what the body
\* carries under "user" (NoUser: nothing).
Contact_update_payload(db, u, pk, company_id, payload_user) ==
    IF pk \notin Contact_get_queryset(db, u, NoKey)
    THEN Result(db, "404_NOT_FOUND", {}, {}, {})
    ELSE IF company_id \notin Contact_company_id_queryset(db, u)
    THEN Result(db, "400_BAD_REQUEST", {"company_id"}, {}, {})
    ELSE Result([db EXCEPT
                    !.contacts[pk].company = company_id,
                    !.contacts[pk].user = Perform_update_user(@, payload_user)],
                "200_OK", {}, {pk}, {company_id})

\* The same for a body without the key "user".
Contact_update(db, u, pk, company_id) ==
    Contact_update_payload(db, u, pk, company_id, NoUser)

\* DestroyModelMixin.destroy on ContactViewSet; Application.contact is SET_NULL.
Contact_destroy(db, u, pk) ==
    IF pk \notin Contact_get_queryset(db, u, NoKey)
    THEN Result(db, "404_NOT_FOUND", {}, {}, {})
    ELSE Result([db EXCEPT !.contacts = Remove(@, {pk}),
                           !.applications = SetNullContact(@, {pk})],
                "204_NO_CONTENT", {}, {}, {})

(* ----------------------------- Model.save ---------------------------- *)

\* Model.save() of a Note under primary key id: an UPDATE of that row when
\* it exists (created_at keeps the instance's value), an INSERT otherwise
\* (auto_now_add stamps created_at, the sequence rises to the key).
Note_save(db, id, row) ==
    IF id \in DOMAIN db.notes
    THEN [db EXCEPT !.notes[id] = row]
    ELSE [db EXCEPT !.notes = Put(@, id, [row EXCEPT !.created_at = db.clock + 1]),
                    !.seq.note = Max(@, id),
                    !.clock = @ + 1]

(* ---------------------------- Application ---------------------------- *)

\* get_queryset without its filter: Application.objects.all()
Application_get_queryset_unscoped(db, u) == DOMAIN db.applications

\* ApplicationViewSet.get_queryset: Application.objects.filter(user=request.user)
Application_get_queryset(db, u) ==
    {a \in DOMAIN db.applications : db.applications[a].user = u}

\* company_id left with the queryset of its declaration: Company.objects.all()
Application_company_id_queryset_unscoped(db, u) == DOMAIN db.companies

\* ApplicationSerializer.__init__: company_id.queryset = Company.objects.filter(user=user)
Application_company_id_queryset(db, u) ==
    {c \in DOMAIN db.companies : db.companies[c].user = u}

\* ApplicationSerializer.__init__: contact_id.queryset = Contact.objects.filter(user=user)
Application_contact_id_queryset(db, u) ==
    {c \in DOMAIN db.contacts : db.contacts[c].user = u}

\* company_id declared with required=False.
Company_id_optional(data) == FALSE

\* ApplicationSerializer.company_id = PrimaryKeyRelatedField(...): required
\* (the default), which a partial update waives.
Company_id_required(data) == ~data.partial

\* Serializer validation (is_valid) of an Application payload
\* [partial, job_title, company_id, contact_id, user, status, has_notes,
\* notes]: the fields that fail.  job_title and company_id are required
\* unless the request is a PATCH; company_id and contact_id must lie in the
\* user's querysets; contact_id may be null; status, when given, must be one
\* of STATUS_CHOICES; a note descriptor needs its text unless PATCH, and
\* the text may not be blank (Note.text is a TextField without blank=True).
Application_errors(db, u, data) ==
    (IF data.job_title = NoTitle /\ ~data.partial THEN {"job_title"} ELSE {})
    \cup (IF data.company_id = NoKey
          THEN (IF Company_id_required(data) THEN {"company_id"} ELSE {})
          ELSE IF data.company_id \in Application_company_id_queryset(db, u)
          THEN {} ELSE {"company_id"})
    \cup (IF data.contact_id \in
                {NoKey, NullRef} \cup Application_contact_id_queryset(db, u)
          THEN {} ELSE {"contact_id"})
    \cup (IF data.status \in STATUS_CHOICES \cup {NoStatus}
          THEN {} ELSE {"status"})
    \cup (IF /\ data.has_notes
             /\ \E i \in 1..Len(data.notes) :
                   \/ data.notes[i].text = NoText /\ ~data.partial
                   \/ data.notes[i].text = Blank
          THEN {"notes"} ELSE {})

\* ModelSerializer.update (super().update): setattr for every validated key,
\* then instance.save().
Application_set_fields(row, data) ==
    [row EXCEPT
        !.job_title = IF data.job_title = NoTitle THEN @ ELSE data.job_title,
        !.company = IF data.company_id = NoKey THEN @ ELSE data.company_id,
        !.contact = IF data.contact_id = NoKey THEN @ ELSE data.contact_id,
        !.status = IF data.status = NoStatus THEN @ ELSE data.status,
        !.user = Perform_update_user(@, data.user)]

\* notes_data = validated_data.pop('notes', [])
Update_notes_data(data) == IF data.has_notes THEN data.notes ELSE <<>>

\* existing_notes taken from Note.objects.all() instead of instance.notes.
Update_existing_notes_unscoped(db, pk) == db.notes

\* existing_notes = {note.id: note for note in instance.notes.all()}
Update_existing_notes(db, pk) ==
    [n \in {m \in DOMAIN db.notes : db.notes[m].application = pk} |-> db.notes[n]]

\* "if note_id:" -- None and 0 are both falsy.
Update_truthy(note_id) == note_id # NoKey /\ note_id # 0

\* The state the loop of ApplicationSerializer.update starts in: the
\* database, the notes loaded from it and the empty incoming_note_ids.
Update_start(db, pk) ==
    [db |-> db, existing |-> Update_existing_notes(db, pk), incoming |-> {}]

\* One pass of "for note_data in notes_data".
Update_process_note(st, pk, nd) ==
    IF Update_truthy(nd.id)
    THEN LET st1 == [st EXCEPT !.incoming = @ \cup {nd.id}] IN
         IF nd.id \in DOMAIN st.existing
         THEN LET row == [st.existing[nd.id] EXCEPT
                             !.text = IF nd.text = NoText THEN @ ELSE nd.text]
              IN \* note.text = ...; note.save()
                 [st1 EXCEPT !.existing = Put(@, nd.id, row),
                             !.db = Note_save(@, nd.id, row)]
         ELSE st1
    ELSE \* Note.objects.create(application=instance, text=...)
         [st EXCEPT
            !.db = Note_save(@, @.seq.note + 1,
                             [application |-> pk,
                              text |-> IF nd.text = NoText THEN "" ELSE nd.text,
                              created_at |-> 0])]

RECURSIVE Update_process_all(_, _, _)
Update_process_all(st, pk, nds) ==
    IF nds = <<>> THEN st
    ELSE Update_process_all(Update_process_note(st, pk, Head(nds)), pk, Tail(nds))

\* update() without its delete statement.
Update_delete_notes_skipped(st, pk) == st

\* notes_to_delete_ids = set(existing_notes.keys()) - incoming_note_ids;
\* Note.objects.filter(application=instance, id__in=notes_to_delete_ids).delete()
Update_delete_notes(st, pk) ==
    LET notes_to_delete_ids == DOMAIN st.existing \ st.incoming IN
    [st EXCEPT !.db.notes =
        Remove(@, {n \in DOMAIN @ : /\ @[n].application = pk
                                    /\ n \in notes_to_delete_ids})]

\* return super().update(instance, validated_data)
Update_save_fields(st, pk, data) ==
    [st EXCEPT !.db.applications[pk] = Application_set_fields(@, data)]

\* ApplicationSerializer.update, from its first statement to its last.
ApplicationSerializer_update(db, pk, data) ==
    Update_save_fields(
        Update_delete_notes(
            Update_process_all(Update_start(db, pk), pk, Update_notes_data(data)),
            pk),
        pk, data).db

Application_list(db, u) ==
    LET qs == Application_get_queryset(db, u) IN
    Result(db, "200_OK", {}, qs, {db.applications[a].company : a \in qs})

Application_retrieve(db, u, pk) ==
    IF pk \in Application_get_queryset(db, u)
    THEN Result(db, "200_OK", {}, {pk}, {db.applications[pk].company})
    ELSE Result(db, "404_NOT_FOUND", {}, {}, {})

\* ApplicationViewSet.perform_create: serializer.save(user=request.user)
Application_create(db, u, data) ==
    LET errors == Application_errors(db, u, data) IN
    IF errors # {}
    THEN Result(db, "400_BAD_REQUEST", errors, {}, {})
    ELSE LET id == db.seq.application + 1 IN
         Result([db EXCEPT
                    !.applications = Put(@, id,
                        [user |-> Perform_create_user(u, data.user),
                         company |-> data.company_id,
                         contact |-> IF data.contact_id = NoKey THEN NullRef
                                     ELSE data.contact_id,
                         job_title |-> data.job_title,
                         \* models.py: status has default='DRAFT'
                         status |-> IF data.status = NoStatus THEN "DRAFT"
                                    ELSE data.status]),
                    !.seq.application = id],
                "201_CREATED", {}, {id}, {data.company_id})

\* UpdateModelMixin.update on ApplicationViewSet: get_object(), is_valid(),
\* then ApplicationSerializer.update.
Application_update(db, u, pk, data) ==
    IF pk \notin Application_get_queryset(db, u)
    THEN Result(db, "404_NOT_FOUND", {}, {}, {})
    ELSE LET errors == Application_errors(db, u, data) IN
         IF errors # {}
         THEN Result(db, "400_BAD_REQUEST", errors, {}, {})
         ELSE LET after == ApplicationSerializer_update(db, pk, data) IN
              Result(after, "200_OK", {}, {pk}, {after.applications[pk].company})

\* DestroyModelMixin.destroy on ApplicationViewSet; Note.application cascades.
Application_destroy(db, u, pk) ==
    IF pk \notin Application_get_queryset(db, u)
    THEN Result(db, "404_NOT_FOUND", {}, {}, {})
    ELSE Result([db EXCEPT !.applications = Remove(@, {pk}),
                           !.notes = Remove(@, CascadeNotes(db, {pk}))],
                "204_NO_CONTENT", {}, {}, {})

(* -------------------------------- Note -------------------------------- *)

\* get_queryset without its filter: Note.objects.all()
Note_get_queryset_unscoped(db, u) == DOMAIN db.notes

\* NoteViewSet.get_queryset: Note.objects.filter(application__user=user)
Note_get_queryset(db, u) ==
    {n \in DOMAIN db.notes :
        /\ db.notes[n].application \in DOMAIN db.applications
        /\ db.applications[db.notes[n].application].user = u}

Note_list(db, u) == Result(db, "200_OK", {}, Note_get_queryset(db, u), {})

Note_retrieve(db, u, pk) ==
    IF pk \in Note_get_queryset(db, u)
    THEN Result(db, "200_OK", {}, {pk}, {})
    ELSE Result(db, "404_NOT_FOUND", {}, {}, {})

\* NoteViewSet.perform_create.  application_id is request.data['application']
\* of a JSON body (NoKey: the key is missing; the number 0 is as falsy); id is the writable NoteSerializer.id of the
\* body (NoKey: missing or null), which serializer.save() hands to
\* Note.objects.create(): an INSERT under that primary key.
Note_create(db, u, application_id, id, text) ==
    IF application_id = NoKey \/ application_id = 0
    THEN \* "if not application_id": raise NotFound
         Result(db, "404_NOT_FOUND", {}, {}, {})
    ELSE IF application_id \notin Application_get_queryset(db, u)
    THEN \* Application.DoesNotExist: raise PermissionDenied
         Result(db, "403_FORBIDDEN", {}, {}, {})
    ELSE IF id \in DOMAIN db.notes
    THEN \* force_insert under a primary key in use
         Result(db, "500_INTEGRITY_ERROR", {}, {}, {})
    ELSE LET new == IF id = NoKey THEN db.seq.note + 1 ELSE id IN
         Result(Note_save(db, new, [application |-> application_id,
                                    text |-> text, created_at |-> 0]),
                "201_CREATED", {}, {new}, {})

\* UpdateModelMixin.update on NoteViewSet: get_object(), then
\* ModelSerializer.update sets every validated attribute on the instance,
\* the writable id among them (NoKey: not in the body; NullKey: null), and
\* calls instance.save(), which writes the row of the instance's CURRENT
\* primary key.
Note_update(db, u, pk, id, text) ==
    IF pk \notin Note_get_queryset(db, u)
    THEN Result(db, "404_NOT_FOUND", {}, {}, {})
    ELSE LET target == IF id = NoKey THEN pk
                       ELSE IF id = NullKey THEN db.seq.note + 1
                       ELSE id
         IN Result(Note_save(db, target, [db.notes[pk] EXCEPT !.text = text]),
                   "200_OK", {}, {target}, {})

Note_destroy(db, u, pk) ==
    IF pk \notin Note_get_queryset(db, u)
    THEN Result(db, "404_NOT_FOUND", {}, {}, {})
    ELSE Result([db EXCEPT !.notes = Remove(@, {pk})], "204_NO_CONTENT", {}, {}, {})

(* --------------------------- request payloads ------------------------- *)

NoteDescriptors(ids, texts) == [id : ids \cup {NoKey}, text : texts]

NotesLists(ids, texts, n) ==
    UNION {[1..k -> NoteDescriptors(ids, texts)] : k \in 0..n}

\* Application payloads: PUT or PATCH, with or without the notes key.
Payloads(titles, cos, cts, owners, statuses, lists) ==
    [partial : BOOLEAN, job_title : titles, company_id : cos, contact_id : cts,
     user : owners, status : statuses, has_notes : {FALSE}, notes : {<<>>}]
    \cup
    [partial : BOOLEAN, job_title : titles, company_id : cos, contact_id : cts,
     user : owners, status : statuses, has_notes : {TRUE}, notes : lists]

\* Specification Spec: every scalar key present or not, one job title, no
\* status, one note text, and a notes key that is missing, empty or holds
\* one new note; a create may name an owner.
ApiNoteIds == 0..ApiMaxNote
ApiTexts == {"a"}
ApiPayloads ==
    Payloads({"dev", NoTitle}, CompanyIds \cup {NoKey},
             ContactIds \cup {NoKey, NullRef}, {NoUser}, {NoStatus},
             NotesLists({}, ApiTexts, 1))
ApiCreatePayloads ==
    {d \in Payloads({"dev", NoTitle}, CompanyIds \cup {NoKey},
                    ContactIds \cup {NoKey, NullRef}, Users \cup {NoUser},
                    {NoStatus}, {}) : ~d.partial}

\* Specifications SpecNotes and SpecSteps: a new job title, a company or
\* none, no contact, no status, and a notes key that is missing or holds up
\* to MaxNotesLen descriptors, each with or without an id.
\* Specification SpecStatus: every scalar key but contact_id present or
\* not, a status of STATUS_CHOICES, none or one that is no choice, no notes
\* key.
StatusPayloads ==
    Payloads({"dev", NoTitle}, CompanyIds \cup {NoKey}, {NoKey}, {NoUser},
             STATUS_CHOICES \cup {NoStatus, "INVALID_STATUS_VALUE"}, {})
StatusCreatePayloads == {d \in StatusPayloads : ~d.partial}

NoteIds == 0..MaxNote
NotesPayloads ==
    Payloads({"ops"}, CompanyIds \cup {NoKey}, {NoKey}, {NoUser}, {NoStatus},
             NotesLists(NoteIds, Texts, MaxNotesLen))

(* ------------------ user_auth_app: registration and login ------------- *)

\* Connections that can have a registration request under way at once.
MaxConnections == 2

Connections == 1..MaxConnections
Usernames == {"u1", "u2"}
Emails == {"e1", "e2"}
\* A registration payload without the key email.
NoEmail == "<no email>"
Passwords == {"p", "q"}

\* The two tables of user_auth_app as one value.
AUTH == [accounts |-> accounts, tokens |-> tokens]

\* What an authentication view returns: the response (status, the keys of
\* its body, its message, the token key) and the tables it leaves.
AuthResult(a, status, errors, detail, token) ==
    [status |-> status, errors |-> errors, detail |-> detail, token |-> token,
     auth |-> a]

\* set_password() stores a hash, authenticate() compares against it.
Make_password(pw) == <<"pbkdf2_sha256", pw>>

Check_password(pw, encoded) == encoded = Make_password(pw)

Users_with_username(a, username) ==
    {i \in DOMAIN a.accounts : a.accounts[i].username = username}

Users_with_email(a, email) ==
    {i \in DOMAIN a.accounts : a.accounts[i].email = email}

\* RegistrationSerializer.is_valid(): auth.User.username is unique, so the
\* ModelSerializer checks it with a UniqueValidator; email is blank=True
\* on auth.User and therefore not required.
RegistrationSerializer_errors(a, data) ==
    IF Users_with_username(a, data.username) # {} THEN {"username"} ELSE {}

\* The comparison of the two passwords in save().
Passwords_differ(data) == data.password # data.repeated_password

\* RegistrationSerializer.save() up to its two raise statements; status ""
\* when neither is reached and no key is missing.
RegistrationSerializer_save_raises(a, data) ==
    IF data.email = NoEmail
    THEN AuthResult(a, "500_KEY_ERROR", {}, "'email'", NoKey)
    ELSE IF Passwords_differ(data)
    THEN AuthResult(a, "400_BAD_REQUEST", {"error"}, "Passwords don't match", NoKey)
    ELSE IF Users_with_email(a, data.email) # {}
    THEN AuthResult(a, "400_BAD_REQUEST", {"error"},
                    "This email address already exists.", NoKey)
    ELSE AuthResult(a, "", {}, "", NoKey)

\* account.save(): the INSERT.  Only username carries a UNIQUE index.
\* Accounts are never deleted, so the next key is the number of rows + 1.
User_save(a, data) ==
    IF Users_with_username(a, data.username) # {}
    THEN [ok |-> FALSE, pk |-> NoKey, auth |-> a]
    ELSE LET pk == Cardinality(DOMAIN a.accounts) + 1 IN
         [ok |-> TRUE, pk |-> pk,
          auth |-> [a EXCEPT !.accounts =
                        Put(@, pk, [username |-> data.username,
                                    email |-> data.email,
                                    password |-> Make_password(data.password)])]]

\* Token.objects.get_or_create(user=...): Token.user is one-to-one; tokens
\* are never deleted, and a new key differs from every key handed out.
Token_get_or_create(a, pk) ==
    IF pk \in DOMAIN a.tokens
    THEN a
    ELSE [a EXCEPT !.tokens = Put(@, pk, Cardinality(DOMAIN @) + 1)]

\* RegistrationView.post with no other request in between.
Registration_post(a, data) ==
    IF RegistrationSerializer_errors(a, data) # {}
    THEN AuthResult(a, "400_BAD_REQUEST", RegistrationSerializer_errors(a, data),
                    "", NoKey)
    ELSE IF RegistrationSerializer_save_raises(a, data).status # ""
    THEN RegistrationSerializer_save_raises(a, data)
    ELSE LET s == User_save(a, data) IN
         IF ~s.ok
         THEN AuthResult(a, "500_INTEGRITY_ERROR", {}, "", NoKey)
         ELSE LET b == Token_get_or_create(s.auth, s.pk) IN
              AuthResult(b, "201_CREATED", {"token", "username", "email"}, "",
                         b.tokens[s.pk])

\* CustomAuthTokenSerializer.validate: the account of the email, then
\* authenticate() with its username.  User.objects.get() raises
\* DoesNotExist for no row and MultipleObjectsReturned for several; only
\* the first is caught.
Authenticate(a, pk, password) ==
    IF Check_password(password, a.accounts[pk].password) THEN pk ELSE NoKey

InvalidLogin == "Invalid email or password."

CustomAuthTokenSerializer_validate(a, email, password) ==
    LET found == Users_with_email(a, email) IN
    IF found = {}
    THEN [status |-> "400_BAD_REQUEST", user |-> NoKey]
    ELSE IF Cardinality(found) > 1
    THEN [status |-> "500_MULTIPLE_OBJECTS", user |-> NoKey]
    ELSE LET user == Authenticate(a, CHOOSE i \in found : TRUE, password) IN
         IF user = NoKey
         THEN [status |-> "400_BAD_REQUEST", user |-> NoKey]
         ELSE [status |-> "200_OK", user |-> user]

\* CustomLoginView.post.
Login_post(a, email, password) ==
    LET v == CustomAuthTokenSerializer_validate(a, email, password) IN
    IF v.status = "400_BAD_REQUEST"
    THEN AuthResult(a, v.status, {"non_field_errors"}, InvalidLogin, NoKey)
    ELSE IF v.status # "200_OK"
    THEN AuthResult(a, v.status, {}, "", NoKey)
    ELSE LET b == Token_get_or_create(a, v.user) IN
         AuthResult(b, "200_OK", {"token", "username", "email"}, "",
                    b.tokens[v.user])

RegistrationPayloads ==
    [username : Usernames, email : Emails \cup {NoEmail}, password : Passwords,
     repeated_password : Passwords]

\* No registration request on a connection.
RegIdle ==
    [pc |-> "idle",
     data |-> [username |-> "", email |-> NoEmail, password |-> "",
               repeated_password |-> ""],
     pk |-> NoKey]

\* No account, no token, no request.
AuthInit ==
    /\ accounts = <<>>
    /\ tokens = <<>>
    /\ reg = [c \in Connections |-> RegIdle]

(* ------------------------------- actions ------------------------------ *)

\* One committed write: db is the database now.  maxNote and maxClock bound
\* the notes table of the specification.
Store(db, maxNote, maxClock) ==
    /\ db.seq.company <= MaxCompany
    /\ db.seq.contact <= MaxContact
    /\ db.seq.application <= MaxApplication
    /\ db.seq.note <= maxNote
    /\ db.clock <= maxClock
    /\ companies' = db.companies
    /\ contacts' = db.contacts
    /\ applications' = db.applications
    /\ notes' = db.notes
    /\ seq' = db.seq
    /\ clock' = db.clock
    /\ UNCHANGED auth

\* A handler ran to its end: the database it leaves is the database now.
Commit(r, maxNote, maxClock) ==
    /\ Store(r.db, maxNote, maxClock)
    /\ UNCHANGED upd

CompanyList(u) ==
    /\ upd.pc = "idle"
    /\ Commit(APIView_initial(DB, u, Company_list(DB, u)),
              ApiMaxNote, ApiMaxClock)
CompanyRetrieve(u, pk) ==
    /\ upd.pc = "idle"
    /\ Commit(APIView_initial(DB, u, Company_retrieve(DB, u, pk)),
              ApiMaxNote, ApiMaxClock)
CompanyCreate(u, name, user) ==
    /\ upd.pc = "idle"
    /\ Commit(APIView_initial(DB, u, Company_create(DB, u, name, user)),
              ApiMaxNote, ApiMaxClock)
CompanyUpdate(u, pk, name) ==
    /\ upd.pc = "idle"
    /\ Commit(APIView_initial(DB, u, Company_update(DB, u, pk, name)),
              ApiMaxNote, ApiMaxClock)
CompanyDelete(u, pk) ==
    /\ upd.pc = "idle"
    /\ Commit(APIView_initial(DB, u, Company_destroy(DB, u, pk)),
              ApiMaxNote, ApiMaxClock)

ContactList(u, c) ==
    /\ upd.pc = "idle"
    /\ Commit(APIView_initial(DB, u, Contact_list(DB, u, c)),
              ApiMaxNote, ApiMaxClock)
ContactRetrieve(u, pk) ==
    /\ upd.pc = "idle"
    /\ Commit(APIView_initial(DB, u, Contact_retrieve(DB, u, pk)),
              ApiMaxNote, ApiMaxClock)
ContactCreate(u, c, user) ==
    /\ upd.pc = "idle"
    /\ Commit(APIView_initial(DB, u, Contact_create(DB, u, c, user)),
              ApiMaxNote, ApiMaxClock)
ContactUpdate(u, pk, c) ==
    /\ upd.pc = "idle"
    /\ Commit(APIView_initial(DB, u, Contact_update(DB, u, pk, c)),
              ApiMaxNote, ApiMaxClock)
ContactDelete(u, pk) ==
    /\ upd.pc = "idle"
    /\ Commit(APIView_initial(DB, u, Contact_destroy(DB, u, pk)),
              ApiMaxNote, ApiMaxClock)

ApplicationList(u) ==
    /\ upd.pc = "idle"
    /\ Commit(APIView_initial(DB, u, Application_list(DB, u)),
              ApiMaxNote, ApiMaxClock)
ApplicationRetrieve(u, pk) ==
    /\ upd.pc = "idle"
    /\ Commit(APIView_initial(DB, u, Application_retrieve(DB, u, pk)),
              ApiMaxNote, ApiMaxClock)
ApplicationCreate(u, d) ==
    /\ upd.pc = "idle"
    /\ Commit(APIView_initial(DB, u, Application_create(DB, u, d)),
              ApiMaxNote, ApiMaxClock)
ApplicationUpdate(u, pk, d) ==
    /\ upd.pc = "idle"
    /\ Commit(APIView_initial(DB, u, Application_update(DB, u, pk, d)),
              ApiMaxNote, ApiMaxClock)
ApplicationDelete(u, pk) ==
    /\ upd.pc = "idle"
    /\ Commit(APIView_initial(DB, u, Application_destroy(DB, u, pk)),
              ApiMaxNote, ApiMaxClock)

NoteList(u) ==
    /\ upd.pc = "idle"
    /\ Commit(APIView_initial(DB, u, Note_list(DB, u)),
              ApiMaxNote, ApiMaxClock)
NoteRetrieve(u, pk) ==
    /\ upd.pc = "idle"
    /\ Commit(APIView_initial(DB, u, Note_retrieve(DB, u, pk)),
              ApiMaxNote, ApiMaxClock)
NoteCreate(u, a, id, text) ==
    /\ upd.pc = "idle"
    /\ Commit(APIView_initial(DB, u, Note_create(DB, u, a, id, text)),
              ApiMaxNote, ApiMaxClock)
NoteUpdate(u, pk, id, text) ==
    /\ upd.pc = "idle"
    /\ Commit(APIView_initial(DB, u, Note_update(DB, u, pk, id, text)),
              ApiMaxNote, ApiMaxClock)
NoteDelete(u, pk) ==
    /\ upd.pc = "idle"
    /\ Commit(APIView_initial(DB, u, Note_destroy(DB, u, pk)),
              ApiMaxNote, ApiMaxClock)

\* No Application update is under way.
Idle ==
    [pc |-> "idle", pk |-> 0, data |-> <<>>, rest |-> <<>>, existing |-> <<>>,
     incoming |-> {}, pre |-> <<>>]

\* The database right after migration: no rows.
Init ==
    /\ companies = <<>>
    /\ contacts = <<>>
    /\ applications = <<>>
    /\ notes = <<>>
    /\ seq = [company |-> 0, contact |-> 0, application |-> 0, note |-> 0]
    /\ clock = 0
    /\ upd = Idle
    /\ AuthInit

Next ==
    \/ \E u \in Credentials : CompanyList(u)
    \/ \E u \in Credentials, pk \in CompanyIds : CompanyRetrieve(u, pk)
    \/ \E u \in Credentials, name \in Names, user \in Users \cup {NoUser} :
            CompanyCreate(u, name, user)
    \/ \E u \in Credentials, pk \in CompanyIds, name \in Names : CompanyUpdate(u, pk, name)
    \/ \E u \in Credentials, pk \in CompanyIds : CompanyDelete(u, pk)
    \/ \E u \in Credentials, c \in CompanyIds \cup {NoKey} : ContactList(u, c)
    \/ \E u \in Credentials, pk \in ContactIds : ContactRetrieve(u, pk)
    \/ \E u \in Credentials, c \in CompanyIds, user \in Users \cup {NoUser} :
            ContactCreate(u, c, user)
    \/ \E u \in Credentials, pk \in ContactIds, c \in CompanyIds : ContactUpdate(u, pk, c)
    \/ \E u \in Credentials, pk \in ContactIds : ContactDelete(u, pk)
    \/ \E u \in Credentials : ApplicationList(u)
    \/ \E u \in Credentials, pk \in ApplicationIds : ApplicationRetrieve(u, pk)
    \/ \E u \in Credentials, d \in ApiCreatePayloads : ApplicationCreate(u, d)
    \/ \E u \in Credentials, pk \in ApplicationIds, d \in ApiPayloads :
            ApplicationUpdate(u, pk, d)
    \/ \E u \in Credentials, pk \in ApplicationIds : ApplicationDelete(u, pk)
    \/ \E u \in Credentials : NoteList(u)
    \/ \E u \in Credentials, pk \in ApiNoteIds : NoteRetrieve(u, pk)
    \/ \E u \in Credentials, a \in ApplicationIds \cup {NoKey, 0},
          id \in ApiNoteIds \cup {NoKey}, text \in ApiTexts : NoteCreate(u, a, id, text)
    \/ \E u \in Credentials, pk \in ApiNoteIds, id \in ApiNoteIds \cup {NoKey, NullKey},
          text \in ApiTexts : NoteUpdate(u, pk, id, text)
    \/ \E u \in Credentials, pk \in ApiNoteIds : NoteDelete(u, pk)

Spec == Init /\ [][Next]_vars

(* --------- the notes of two existing applications (SpecNotes) --------- *)

NotesApplicationUpdate(u, pk, d) ==
    /\ upd.pc = "idle"
    /\ Commit(APIView_initial(DB, u, Application_update(DB, u, pk, d)),
              MaxNote, MaxClock)
NotesNoteCreate(u, a, id, text) ==
    /\ upd.pc = "idle"
    /\ Commit(APIView_initial(DB, u, Note_create(DB, u, a, id, text)),
              MaxNote, MaxClock)
NotesNoteUpdate(u, pk, id, text) ==
    /\ upd.pc = "idle"
    /\ Commit(APIView_initial(DB, u, Note_update(DB, u, pk, id, text)),
              MaxNote, MaxClock)
NotesNoteDelete(u, pk) ==
    /\ upd.pc = "idle"
    /\ Commit(APIView_initial(DB, u, Note_destroy(DB, u, pk)),
              MaxNote, MaxClock)

\* The database after alice and bob each created a Company and an
\* Application of it: Company 1 and Application 1 are alice's, Company 2 and
\* Application 2 are bob's.
InitNotes ==
    /\ companies = [c \in {1, 2} |->
                        [user |-> IF c = 1 THEN "alice" ELSE "bob", name |-> "acme"]]
    /\ contacts = <<>>
    /\ applications = [a \in {1, 2} |->
                        [user |-> IF a = 1 THEN "alice" ELSE "bob", company |-> a,
                         contact |-> NullRef, job_title |-> "dev",
                         status |-> "DRAFT"]]
    /\ notes = <<>>
    /\ seq = [company |-> 2, contact |-> 0, application |-> 2, note |-> 0]
    /\ clock = 0
    /\ upd = Idle
    /\ AuthInit

NextNotes ==
    \/ \E u \in Credentials, pk \in ApplicationIds, d \in NotesPayloads :
            NotesApplicationUpdate(u, pk, d)
    \/ \E u \in Credentials, a \in ApplicationIds \cup {NoKey, 0},
          id \in NoteIds \cup {NoKey}, text \in Texts : NotesNoteCreate(u, a, id, text)
    \/ \E u \in Credentials, pk \in NoteIds, id \in NoteIds \cup {NoKey, NullKey},
          text \in Texts : NotesNoteUpdate(u, pk, id, text)
    \/ \E u \in Credentials, pk \in NoteIds : NotesNoteDelete(u, pk)

SpecNotes == InitNotes /\ [][NextNotes]_vars

(* ------------- the status of an Application (SpecStatus) -------------- *)

\* The database after alice and bob each created a Company: Company 1 is
\* alice's, Company 2 is bob's.
InitStatus ==
    /\ companies = [c \in {1, 2} |->
                        [user |-> IF c = 1 THEN "alice" ELSE "bob", name |-> "acme"]]
    /\ contacts = <<>>
    /\ applications = <<>>
    /\ notes = <<>>
    /\ seq = [company |-> 2, contact |-> 0, application |-> 0, note |-> 0]
    /\ clock = 0
    /\ upd = Idle
    /\ AuthInit

NextStatus ==
    \/ \E u \in Credentials, d \in StatusCreatePayloads : ApplicationCreate(u, d)
    \/ \E u \in Credentials, pk \in ApplicationIds, d \in StatusPayloads :
            ApplicationUpdate(u, pk, d)
    \/ \E u \in Credentials, pk \in ApplicationIds : ApplicationRetrieve(u, pk)
    \/ \E u \in Credentials, pk \in ApplicationIds : ApplicationDelete(u, pk)

SpecStatus == InitStatus /\ [][NextStatus]_vars

(* ------ companies and contacts beside manage.py import_data (SpecImport) *)

\* import_data reads one company item of its JSON file.
ImportCompany(id, user_id, name) ==
    /\ upd.pc = "idle"
    /\ Store(Import_company(DB, id, user_id, name), ApiMaxNote, ApiMaxClock)
    /\ UNCHANGED upd

NextImport ==
    \/ \E id \in CompanyIds, user_id \in Users \cup {NoUser}, name \in Names :
            ImportCompany(id, user_id, name)
    \/ \E u \in Credentials : CompanyList(u)
    \/ \E u \in Credentials, pk \in CompanyIds : CompanyRetrieve(u, pk)
    \/ \E u \in Credentials, name \in Names, user \in Users \cup {NoUser} :
            CompanyCreate(u, name, user)
    \/ \E u \in Credentials, pk \in CompanyIds, name \in Names :
            CompanyUpdate(u, pk, name)
    \/ \E u \in Credentials, pk \in CompanyIds : CompanyDelete(u, pk)
    \/ \E u \in Credentials, c \in CompanyIds \cup {NoKey} : ContactList(u, c)
    \/ \E u \in Credentials, pk \in ContactIds : ContactRetrieve(u, pk)
    \/ \E u \in Credentials, c \in CompanyIds, user \in Users \cup {NoUser} :
            ContactCreate(u, c, user)
    \/ \E u \in Credentials, pk \in ContactIds, c \in CompanyIds :
            ContactUpdate(u, pk, c)
    \/ \E u \in Credentials, pk \in ContactIds : ContactDelete(u, pk)

SpecImport == Init /\ [][NextImport]_vars

(* ------------- note texts that are empty or missing (SpecText) -------- *)

\* Updates whose descriptors come with a text, with the empty text or
\* without the key text.
TextPayloads ==
    Payloads({"ops"}, CompanyIds, {NoKey}, {NoUser}, {NoStatus},
             NotesLists(1..MaxNote, Texts \cup {Blank, NoText}, MaxNotesLen))

TextApplicationUpdate(u, pk, d) ==
    /\ upd.pc = "idle"
    /\ Commit(APIView_initial(DB, u, Application_update(DB, u, pk, d)),
              MaxNote, MaxClock)

NextText ==
    \/ \E u \in Users, pk \in ApplicationIds, d \in TextPayloads :
           TextApplicationUpdate(u, pk, d)
    \/ \E u \in Users, a \in ApplicationIds, text \in Texts :
           NotesNoteCreate(u, a, NoKey, text)
    \/ \E u \in Users, pk \in 1..MaxNote : NotesNoteDelete(u, pk)

SpecText == InitNotes /\ [][NextText]_vars

(* ---------- updates whose body names an owner (SpecOwner) ------------- *)

\* Creates and updates of the three owned tables by alice and bob, every
\* body with or without a "user" key naming either of them.  A create
\* stores the job title "dev", an update the job title "ops".
OwnerCreatePayloads ==
    {d \in Payloads({"dev"}, CompanyIds, ContactIds \cup {NoKey},
                    Users \cup {NoUser}, {NoStatus}, {}) : ~d.partial}
OwnerUpdatePayloads ==
    Payloads({"ops"}, CompanyIds \cup {NoKey}, ContactIds \cup {NoKey},
             Users \cup {NoUser}, {NoStatus}, {})

OwnerCompanyUpdate(u, pk, name, user) ==
    /\ upd.pc = "idle"
    /\ Commit(APIView_initial(DB, u, Company_update_payload(DB, u, pk, name, user)),
              ApiMaxNote, ApiMaxClock)

OwnerContactUpdate(u, pk, c, user) ==
    /\ upd.pc = "idle"
    /\ Commit(APIView_initial(DB, u, Contact_update_payload(DB, u, pk, c, user)),
              ApiMaxNote, ApiMaxClock)

NextOwner ==
    \/ \E u \in Users, name \in Names, user \in Users \cup {NoUser} :
            CompanyCreate(u, name, user)
    \/ \E u \in Users, pk \in CompanyIds, name \in Names, user \in Users \cup {NoUser} :
            OwnerCompanyUpdate(u, pk, name, user)
    \/ \E u \in Users, c \in CompanyIds, user \in Users \cup {NoUser} :
            ContactCreate(u, c, user)
    \/ \E u \in Users, pk \in ContactIds, c \in CompanyIds, user \in Users \cup {NoUser} :
            OwnerContactUpdate(u, pk, c, user)
    \/ \E u \in Users, d \in OwnerCreatePayloads : ApplicationCreate(u, d)
    \/ \E u \in Users, pk \in ApplicationIds, d \in OwnerUpdatePayloads :
            ApplicationUpdate(u, pk, d)
    \/ \E u \in Users, pk \in ApplicationIds : ApplicationDelete(u, pk)

SpecOwner == Init /\ [][NextOwner]_vars

(* ------- ApplicationSerializer.update, write by write (SpecSteps) ------ *)

\* upd is the request under way: pc is where it stands ("loop": in the for
\* loop, "save": before super().update(), "failed": ended by an exception or
\* a lost connection), pk and data are its instance and payload, rest the
\* descriptors the loop has not reached, existing and incoming the locals
\* of update(), and pre the notes and applications tables and the clock it
\* started from (pre.applications[pk] is the instance get_object() loaded).
\* No statement of update() runs under transaction.atomic(), so the database
\* commits each write on its own.
StepPayloads == {d \in NotesPayloads : d.partial /\ d.company_id = NoKey}

Step_state == [db |-> DB, existing |-> upd.existing, incoming |-> upd.incoming]

\* get_object() and is_valid() passed; update() ran up to its loop.
StepBegin(u, pk, d) ==
    /\ upd.pc = "idle"
    /\ pk \in Application_get_queryset(DB, u)
    /\ Application_errors(DB, u, d) = {}
    /\ upd' = [pc |-> "loop", pk |-> pk, data |-> d, rest |-> Update_notes_data(d),
               existing |-> Update_start(DB, pk).existing,
               incoming |-> Update_start(DB, pk).incoming,
               pre |-> [notes |-> notes, applications |-> applications,
                        clock |-> clock]]
    /\ UNCHANGED <<companies, contacts, applications, notes, seq, clock, auth>>

\* A database that does not enforce its FOREIGN KEY constraints.
Foreign_keys_unchecked(db) == TRUE

\* The FOREIGN KEY constraints of the four tables: a statement that would
\* leave a row pointing at a missing row raises IntegrityError and writes
\* nothing.
Foreign_keys_hold(db) ==
    /\ \A n \in DOMAIN db.notes : db.notes[n].application \in DOMAIN db.applications
    /\ \A c \in DOMAIN db.contacts : db.contacts[c].company \in DOMAIN db.companies
    /\ \A a \in DOMAIN db.applications :
          /\ db.applications[a].company \in DOMAIN db.companies
          /\ db.applications[a].contact \in DOMAIN db.contacts \cup {NullRef}

\* One pass of the loop: note.save() or Note.objects.create().  An
\* IntegrityError ends the request.
StepNote ==
    /\ upd.pc = "loop"
    /\ upd.rest # <<>>
    /\ LET st == Update_process_note(Step_state, upd.pk, Head(upd.rest)) IN
       IF Foreign_keys_hold(st.db)
       THEN /\ Store(st.db, MaxNote, MaxClock)
            /\ upd' = [upd EXCEPT !.rest = Tail(@), !.existing = st.existing,
                                  !.incoming = st.incoming]
       ELSE /\ upd' = Idle
            /\ UNCHANGED <<companies, contacts, applications, notes, seq, clock, auth>>

\* The loop is over: the delete of the notes the list does not name.
StepDelete ==
    /\ upd.pc = "loop"
    /\ upd.rest = <<>>
    /\ Store(Update_delete_notes(Step_state, upd.pk).db, MaxNote, MaxClock)
    /\ upd' = [upd EXCEPT !.pc = "save"]

\* super().update(instance, validated_data): setattr on the instance that
\* get_object() loaded, then instance.save(), which writes every column of
\* it: an UPDATE of its row, an INSERT when the row is gone.
Update_save_instance(st, pk, instance, data) ==
    [st EXCEPT !.db.applications = Put(@, pk, Application_set_fields(instance, data))]

StepSave ==
    /\ upd.pc = "save"
    /\ LET st == Update_save_instance(Step_state, upd.pk,
                                      upd.pre.applications[upd.pk], upd.data) IN
       IF Foreign_keys_hold(st.db)
       THEN Store(st.db, MaxNote, MaxClock)
       ELSE UNCHANGED <<companies, contacts, applications, notes, seq, clock, auth>>
    /\ upd' = Idle

\* The request ends before its next statement; what it wrote stays written.
StepFail ==
    /\ upd.pc \in {"loop", "save"}
    /\ upd' = [upd EXCEPT !.pc = "failed"]
    /\ UNCHANGED <<companies, contacts, applications, notes, seq, clock, auth>>

\* The next request finds the database as the failed one left it.
StepRecover ==
    /\ upd.pc = "failed"
    /\ upd' = Idle
    /\ UNCHANGED <<companies, contacts, applications, notes, seq, clock, auth>>

NextSteps ==
    \/ \E u \in Users, pk \in ApplicationIds, d \in StepPayloads : StepBegin(u, pk, d)
    \/ StepNote
    \/ StepDelete
    \/ StepSave
    \/ StepFail
    \/ StepRecover

SpecSteps == InitNotes /\ [][NextSteps]_vars

(* ------------- registration, statement by statement (SpecAuth) -------- *)

\* The tables and the request of application_app.
tracker == <<companies, contacts, applications, notes, seq, clock, upd>>

\* reg[c] is the registration request of connection c: pc is where it stands
\* ("save": is_valid() passed, "insert": neither raise of save() was reached,
\* "token": the account is stored), data its payload and pk the key of its
\* account.  Nothing in RegistrationView.post runs under
\* transaction.atomic(): each query commits on its own and requests of
\* other connections run in between.
RegValidate(c, data) ==
    /\ reg[c].pc = "idle"
    /\ reg' = IF RegistrationSerializer_errors(AUTH, data) = {}
              THEN [reg EXCEPT ![c] = [pc |-> "save", data |-> data, pk |-> NoKey]]
              ELSE reg
    /\ UNCHANGED <<accounts, tokens, tracker>>

\* save() up to the query of the email.
RegCheck(c) ==
    /\ reg[c].pc = "save"
    /\ reg' = IF RegistrationSerializer_save_raises(AUTH, reg[c].data).status = ""
              THEN [reg EXCEPT ![c].pc = "insert"]
              ELSE [reg EXCEPT ![c] = RegIdle]
    /\ UNCHANGED <<accounts, tokens, tracker>>

\* account.save().
RegInsert(c) ==
    /\ reg[c].pc = "insert"
    /\ LET s == User_save(AUTH, reg[c].data) IN
       /\ accounts' = s.auth.accounts
       /\ reg' = IF s.ok
                 THEN [reg EXCEPT ![c].pc = "token", ![c].pk = s.pk]
                 ELSE [reg EXCEPT ![c] = RegIdle]
    /\ UNCHANGED <<tokens, tracker>>

\* Token.objects.get_or_create(user=saved_account) and the 201 response.
RegToken(c) ==
    /\ reg[c].pc = "token"
    /\ tokens' = Token_get_or_create(AUTH, reg[c].pk).tokens
    /\ reg' = [reg EXCEPT ![c] = RegIdle]
    /\ UNCHANGED <<accounts, tracker>>

\* A login request: one query and at most one INSERT of a token.
Login(email, password) ==
    /\ tokens' = Login_post(AUTH, email, password).auth.tokens
    /\ UNCHANGED <<accounts, reg, tracker>>

NextAuth ==
    \/ \E c \in Connections, data \in RegistrationPayloads : RegValidate(c, data)
    \/ \E c \in Connections : RegCheck(c)
    \/ \E c \in Connections : RegInsert(c)
    \/ \E c \in Connections : RegToken(c)
    \/ \E email \in Emails, password \in Passwords : Login(email, password)

SpecAuth == Init /\ [][NextAuth]_vars

(* ----- an Application update beside other requests (SpecRace) --------- *)

\* Requests of other connections run to their end between two statements
\* of the update under way: the notes endpoint, the delete of an
\* Application and a whole update of an Application.  The updates are
\* PATCH requests with a new job title and no notes key or a list of at
\* most one descriptor; the whole update adds one note.
RacePayloads ==
    {d \in Payloads({"ops"}, {NoKey}, {NoKey}, {NoUser}, {NoStatus},
                    NotesLists(NoteIds, {"a"}, 1)) : d.partial}

RaceUpdatePayloads ==
    {d \in RacePayloads : d.has_notes /\ d.notes = <<[id |-> NoKey, text |-> "a"]>>}

RaceNoteCreate(u, a, id, text) ==
    /\ upd.pc \in {"idle", "loop", "save"}
    /\ Commit(Note_create(DB, u, a, id, text), MaxNote, MaxClock)

RaceNoteDelete(u, pk) ==
    /\ upd.pc \in {"idle", "loop", "save"}
    /\ Commit(Note_destroy(DB, u, pk), MaxNote, MaxClock)

RaceApplicationDelete(u, pk) ==
    /\ upd.pc \in {"idle", "loop", "save"}
    /\ Commit(Application_destroy(DB, u, pk), MaxNote, MaxClock)

RaceCompanyDelete(u, pk) ==
    /\ upd.pc \in {"idle", "loop", "save"}
    /\ Commit(Company_destroy(DB, u, pk), MaxNote, MaxClock)

RaceContactCreate(u, c) ==
    /\ upd.pc \in {"idle", "loop", "save"}
    /\ Commit(Contact_create(DB, u, c, NoUser), MaxNote, MaxClock)

RaceContactDelete(u, pk) ==
    /\ upd.pc \in {"idle", "loop", "save"}
    /\ Commit(Contact_destroy(DB, u, pk), MaxNote, MaxClock)

RaceApplicationUpdate(u, pk, d) ==
    /\ upd.pc \in {"loop", "save"}
    /\ Commit(Application_update(DB, u, pk, d), MaxNote, MaxClock)

NextRace ==
    \/ \E u \in Users, pk \in ApplicationIds, d \in RacePayloads : StepBegin(u, pk, d)
    \/ StepNote
    \/ StepDelete
    \/ StepSave
    \/ \E u \in Users, a \in ApplicationIds, id \in (1..MaxNote) \cup {NoKey} :
           RaceNoteCreate(u, a, id, "a")
    \/ \E u \in Users, pk \in 1..MaxNote : RaceNoteDelete(u, pk)
    \/ \E u \in Users, pk \in ApplicationIds : RaceApplicationDelete(u, pk)
    \/ \E u \in Users, pk \in ApplicationIds, d \in RaceUpdatePayloads :
           RaceApplicationUpdate(u, pk, d)

SpecRace == InitNotes /\ [][NextRace]_vars

(* ---- alice's update beside her deletes and creates (SpecIntegrity) --- *)

\* alice's PATCH requests of Application 1: a new job title, Contact 1 or no
\* contact key, and no notes key, a new note or a descriptor naming note 1.
IntegrityPayloads ==
    {d \in Payloads({"ops"}, {NoKey}, ContactIds \cup {NoKey}, {NoUser}, {NoStatus},
                    NotesLists({1}, {"a"}, 1)) : d.partial /\ d.notes # <<>>}
    \cup {d \in Payloads({"ops"}, {NoKey}, ContactIds \cup {NoKey}, {NoUser},
                          {NoStatus}, {}) : d.partial}

\* Between the statements of the update alice's other connection creates
\* and deletes notes of Application 1 and Contacts of Company 1, and
\* deletes Application 1 or Company 1.
NextIntegrity ==
    \/ \E d \in IntegrityPayloads : StepBegin("alice", 1, d)
    \/ StepNote
    \/ StepDelete
    \/ StepSave
    \/ RaceNoteCreate("alice", 1, NoKey, "a")
    \/ \E pk \in 1..MaxNote : RaceNoteDelete("alice", pk)
    \/ RaceApplicationDelete("alice", 1)
    \/ RaceCompanyDelete("alice", 1)
    \/ RaceContactCreate("alice", 1)
    \/ \E pk \in ContactIds : RaceContactDelete("alice", pk)

SpecIntegrity == InitNotes /\ [][NextIntegrity]_vars

(* ------------------------ properties of the API ----------------------- *)

\* What every refused request answers: the status, an empty body and the
\* database as it was.
NotFound == Result(DB, "404_NOT_FOUND", {}, {}, {})

Owner_of_note(n) == applications[notes[n].application].user

\* C1: an Application of one user never appears in another user's
\* application list, and that other user's retrieve, update (any payload) or
\* delete of its id answers 404 Not Found, never 403, and leaves the
\* Application and its notes (the whole database) as they were.
C1_OthersApplicationIsNotFound ==
    \A u \in Users :
        /\ \A a \in Application_list(DB, u).ids : applications[a].user = u
        /\ \A pk \in DOMAIN applications :
              applications[pk].user # u =>
                 /\ Application_retrieve(DB, u, pk) = NotFound
                 /\ Application_destroy(DB, u, pk) = NotFound
                 /\ \A d \in ApiPayloads : Application_update(DB, u, pk, d) = NotFound

\* alice's Application 1 has a note, bob has an Application of his own, and
\* bob's PATCH of Application 1 is answered 404.
C1_Witness ==
    /\ 1 \in DOMAIN applications /\ applications[1].user = "alice"
    /\ \E n \in DOMAIN notes : notes[n].application = 1
    /\ Application_list(DB, "bob").ids # {}
    /\ \E d \in ApiPayloads :
          /\ d.partial /\ d.job_title # NoTitle
          /\ Application_update(DB, "bob", 1, d).status = "404_NOT_FOUND"

\* C5: POST /notes/ naming an Application that does not exist or belongs to
\* another user answers 403 (permission denied), POST /notes/ without an
\* Application id answers the distinct 404 "not provided" error; either way
\* the notes table stays as it was.
C5_NoteCreateRefusals ==
    \A u \in Users, a \in ApplicationIds \cup {NoKey, 0}, text \in ApiTexts :
        LET r == Note_create(DB, u, a, NoKey, text) IN
        /\ a = NoKey => r.status = "404_NOT_FOUND" /\ r.db = DB
        /\ (a # NoKey /\ a \notin Application_get_queryset(DB, u)) =>
              r.status = "403_FORBIDDEN" /\ r.db = DB

\* C6: a Contact create or update is accepted only for a Company of the
\* requesting user, every Contact's owner is the owner of its Company, and
\* no Contact body shows another user's Company.
C6_ContactCompanyOwned ==
    /\ \A c \in DOMAIN contacts :
          /\ contacts[c].company \in DOMAIN companies
          /\ companies[contacts[c].company].user = contacts[c].user
    /\ \A u \in Users :
          /\ \A co \in Contact_list(DB, u, NoKey).nested : companies[co].user = u
          /\ \A co \in CompanyIds :
                /\ Contact_create(DB, u, co, NoUser).status = "201_CREATED"
                      => co \in Company_get_queryset(DB, u)
                /\ \A pk \in ContactIds :
                      Contact_update(DB, u, pk, co).status = "200_OK"
                         => co \in Company_get_queryset(DB, u)

\* C7: an Application create or update whose company_id or contact_id is
\* not one of the requesting user's own is answered 400 naming that field
\* and changes nothing; the Company of every Application and its Contact,
\* when set, belong to the Application's owner.
C7_ApplicationReferencesOwned ==
    /\ \A a \in DOMAIN applications :
          /\ applications[a].company \in Company_get_queryset(DB, applications[a].user)
          /\ applications[a].contact # NullRef =>
                applications[a].contact
                    \in Contact_get_queryset(DB, applications[a].user, NoKey)
    /\ \A u \in Users, d \in ApiPayloads :
          LET foreign ==
                 (IF d.company_id # NoKey /\ d.company_id \notin Company_get_queryset(DB, u)
                  THEN {"company_id"} ELSE {})
                 \cup
                 (IF /\ d.contact_id \notin {NoKey, NullRef}
                     /\ d.contact_id \notin Contact_get_queryset(DB, u, NoKey)
                  THEN {"contact_id"} ELSE {})
          IN foreign # {} =>
                /\ LET r == Application_create(DB, u, d) IN
                      /\ r.status = "400_BAD_REQUEST"
                      /\ foreign \subseteq r.errors
                      /\ r.db = DB
                /\ \A pk \in Application_get_queryset(DB, u) :
                      LET r == Application_update(DB, u, pk, d) IN
                      /\ r.status = "400_BAD_REQUEST"
                      /\ foreign \subseteq r.errors
                      /\ r.db = DB

\* alice has an Application, bob has a Company and a Contact, and alice's
\* PATCH of her Application with bob's Company and with bob's Contact is
\* answered 400.
C7_Witness ==
    \E pk \in Application_get_queryset(DB, "alice"),
       co \in Company_get_queryset(DB, "bob"),
       ct \in Contact_get_queryset(DB, "bob", NoKey) :
        \E d \in ApiPayloads :
            /\ d.partial /\ d.company_id = co /\ d.contact_id = ct
            /\ Application_update(DB, "alice", pk, d).errors = {"company_id", "contact_id"}

\* C9: list and retrieve of Company and Contact return only records of the
\* requesting user, and list and retrieve of Note only notes whose
\* Application belongs to the requesting user.
C9_ReadsAreScoped ==
    \A u \in Users :
        /\ \A c \in Company_list(DB, u).ids : companies[c].user = u
        /\ \A pk \in CompanyIds :
              \A c \in Company_retrieve(DB, u, pk).ids : companies[c].user = u
        /\ \A q \in CompanyIds \cup {NoKey} :
              \A c \in Contact_list(DB, u, q).ids : contacts[c].user = u
        /\ \A pk \in ContactIds :
              \A c \in Contact_retrieve(DB, u, pk).ids : contacts[c].user = u
        /\ \A n \in Note_list(DB, u).ids : Owner_of_note(n) = u
        /\ \A pk \in ApiNoteIds :
              \A n \in Note_retrieve(DB, u, pk).ids : Owner_of_note(n) = u

\* Both users own a Company, bob owns the Contact and alice a note: alice's
\* lists show her Company and her note, and not bob's Company or Contact.
C9_Witness ==
    /\ Company_list(DB, "alice").ids # {}
    /\ Company_list(DB, "bob").ids # {}
    /\ Contact_list(DB, "bob", NoKey).ids # {}
    /\ Contact_list(DB, "alice", NoKey).ids = {}
    /\ Note_list(DB, "alice").ids # {}
    /\ Note_list(DB, "bob").ids = {}

\* C10: for Company, Contact, Application and Note alike, a retrieve,
\* update or delete of an id that is not a record of the requesting user
\* gets one and the same answer, 404 Not Found with an empty body, whether
\* the id is another user's record or no record at all.
C10_ForeignIsMissing ==
    \A u \in Users :
        /\ \A pk \in CompanyIds \ Company_get_queryset(DB, u) :
              /\ Company_retrieve(DB, u, pk) = NotFound
              /\ Company_destroy(DB, u, pk) = NotFound
              /\ \A name \in Names : Company_update(DB, u, pk, name) = NotFound
        /\ \A pk \in ContactIds \ Contact_get_queryset(DB, u, NoKey) :
              /\ Contact_retrieve(DB, u, pk) = NotFound
              /\ Contact_destroy(DB, u, pk) = NotFound
              /\ \A co \in CompanyIds : Contact_update(DB, u, pk, co) = NotFound
        /\ \A pk \in ApplicationIds \ Application_get_queryset(DB, u) :
              /\ Application_retrieve(DB, u, pk) = NotFound
              /\ Application_destroy(DB, u, pk) = NotFound
              /\ \A d \in ApiPayloads : Application_update(DB, u, pk, d) = NotFound
        /\ \A pk \in ApiNoteIds \ Note_get_queryset(DB, u) :
              /\ Note_retrieve(DB, u, pk) = NotFound
              /\ Note_destroy(DB, u, pk) = NotFound
              /\ \A id \in ApiNoteIds \cup {NoKey, NullKey}, text \in ApiTexts :
                    Note_update(DB, u, pk, id, text) = NotFound

\* For alice, Company 1, Contact 1, Application 1 and note 1 are bob's
\* records while Company 2 and Application 2 are no records at all.
C10_Witness ==
    /\ 1 \in DOMAIN companies /\ companies[1].user = "bob"
    /\ 1 \in DOMAIN contacts /\ contacts[1].user = "bob"
    /\ 1 \in DOMAIN applications /\ applications[1].user = "bob"
    /\ 1 \in DOMAIN notes /\ Owner_of_note(1) = "bob"
    /\ 2 \notin DOMAIN companies
    /\ 2 \notin DOMAIN applications
    /\ Company_retrieve(DB, "alice", 1) = Company_retrieve(DB, "alice", 2)
    /\ Application_destroy(DB, "alice", 1) = Application_destroy(DB, "alice", 2)


(* ------------------- properties of the notes of an Application -------- *)

\* The notes of Application pk in a notes table.
Notes_of(ns, pk) == {n \in DOMAIN ns : ns[n].application = pk}

\* The ids a notes list carries and the positions whose descriptor has none.
Ids_in(L) == {L[i].id : i \in 1..Len(L)} \ {NoKey}
Without_id(L) == {i \in 1..Len(L) : L[i].id = NoKey}

\* C2: an accepted Application update, PUT or PATCH, whose payload has no
\* notes key leaves the notes table as it was: no note of the Application is
\* created, modified or deleted.
C2_NoNotesKeyKeepsNotes ==
    \A u \in Users :
        \A pk \in Application_get_queryset(DB, u), d \in NotesPayloads :
            (~d.has_notes /\ Application_errors(DB, u, d) = {}) =>
                Application_update(DB, u, pk, d).db.notes = notes

\* Reconciliation of Application pk's notes S with the notes list L, as the
\* claim states it: the surviving notes of S are those named in L, each with
\* a text L gives for it and otherwise as it was; every other note of the
\* Application is new, under a key above the sequence, one per descriptor
\* without an id and with such a descriptor's text; the other Applications'
\* notes are as they were.
Reconciled(pk, L, after) ==
    LET S == Notes_of(notes, pk)
        A == Notes_of(after, pk)
    IN /\ A \cap DOMAIN notes = Ids_in(L)
       /\ \A n \in Ids_in(L) :
             /\ \E i \in 1..Len(L) : L[i].id = n /\ after[n].text = L[i].text
             /\ after[n].created_at = notes[n].created_at
       /\ Cardinality(A \ DOMAIN notes) = Cardinality(Without_id(L))
       /\ \A n \in A \ DOMAIN notes :
             /\ n > seq.note
             /\ \E i \in Without_id(L) : after[n].text = L[i].text
       /\ \A n \in DOMAIN notes \ S : n \in DOMAIN after /\ after[n] = notes[n]
       /\ DOMAIN after \ A = DOMAIN notes \ S

\* C3: an accepted update of an Application with notes S whose notes list L
\* names only notes of S leaves exactly the notes of S named in L, each with
\* the text L gives, plus one new note under a fresh key for every descriptor
\* of L without an id; the notes of S that L does not name are deleted.
C3_ReconciliationComplete ==
    \A u \in Users :
        \A pk \in Application_get_queryset(DB, u), d \in NotesPayloads :
            (/\ d.has_notes
             /\ Application_errors(DB, u, d) = {}
             /\ Ids_in(d.notes) \subseteq Notes_of(notes, pk)) =>
                Reconciled(pk, d.notes, Application_update(DB, u, pk, d).db.notes)

\* C8: whatever id a request to the notes endpoint carries in its body, a
\* create stores its note under the next key of the sequence and leaves every
\* other note alone, an update neither adds a row nor changes any note but
\* the addressed one, which keeps its key and its Application, and a delete
\* removes the addressed note only.
C8_NoteIdsAreSystemAssigned ==
    \A u \in Users, text \in Texts :
        /\ \A a \in ApplicationIds, id \in NoteIds \cup {NoKey} :
              LET r == Note_create(DB, u, a, id, text) IN
              IF r.status = "201_CREATED"
              THEN /\ DOMAIN r.db.notes = DOMAIN notes \cup {seq.note + 1}
                   /\ \A n \in DOMAIN notes : r.db.notes[n] = notes[n]
              ELSE r.db = DB
        /\ \A pk \in NoteIds, id \in NoteIds \cup {NoKey, NullKey} :
              LET r == Note_update(DB, u, pk, id, text) IN
              IF r.status = "200_OK"
              THEN /\ DOMAIN r.db.notes = DOMAIN notes
                   /\ r.ids = {pk}
                   /\ r.db.notes[pk].application = notes[pk].application
                   /\ \A n \in DOMAIN notes \ {pk} : r.db.notes[n] = notes[n]
              ELSE r.db = DB
        /\ \A pk \in NoteIds :
              LET r == Note_destroy(DB, u, pk) IN
              IF r.status = "204_NO_CONTENT"
              THEN r.db.notes = Remove(notes, {pk})
              ELSE r.db = DB


\* C4: an Application update is all-or-nothing: when it ends early, after
\* its first note write or later, neither its note changes nor its field
\* changes are in the database, so the notes are never reconciled beside
\* stale fields.
C4_UpdateIsAllOrNothing ==
    upd.pc = "failed" =>
        /\ notes = upd.pre.notes
        /\ applications = upd.pre.applications

(* ------------------------- owners and credentials --------------------- *)

\* C11: whatever owner a create payload names, a created Company, Contact
\* or Application is stored with the requesting user as its owner.
C11_CreateStoresRequester ==
    \A u \in Users, claimed \in Users \cup {NoUser} :
        /\ \A name \in Names :
              LET r == Company_create(DB, u, name, claimed) IN
              \A id \in r.ids : r.db.companies[id].user = u
        /\ \A co \in CompanyIds :
              LET r == Contact_create(DB, u, co, claimed) IN
              \A id \in r.ids : r.db.contacts[id].user = u
        /\ \A d \in ApiCreatePayloads :
              LET r == Application_create(DB, u, d) IN
              \A id \in r.ids : r.db.applications[id].user = u

\* bob owns a Company, and his creates of a Company, a Contact and an
\* Application whose payloads name alice as owner are all accepted.
C11_Witness ==
    \E co \in Company_get_queryset(DB, "bob") :
        /\ \E name \in Names :
              Company_create(DB, "bob", name, "alice").status = "201_CREATED"
        /\ Contact_create(DB, "bob", co, "alice").status = "201_CREATED"
        /\ \E d \in ApiCreatePayloads :
              /\ d.user = "alice"
              /\ Application_create(DB, "bob", d).status = "201_CREATED"

\* The responses to every request the credential cred can send in the
\* current state: list, retrieve, create, update and delete of the four
\* endpoints, for every id and payload.
Responses(cred) ==
    {APIView_initial(DB, cred, Company_list(DB, cred)),
     APIView_initial(DB, cred, Application_list(DB, cred)),
     APIView_initial(DB, cred, Note_list(DB, cred))}
    \cup {APIView_initial(DB, cred, Contact_list(DB, cred, q)) :
            q \in CompanyIds \cup {NoKey}}
    \cup {APIView_initial(DB, cred, Company_retrieve(DB, cred, pk)) : pk \in CompanyIds}
    \cup {APIView_initial(DB, cred, Company_destroy(DB, cred, pk)) : pk \in CompanyIds}
    \cup {APIView_initial(DB, cred, Company_create(DB, cred, x[1], x[2])) :
            x \in Names \X (Users \cup {NoUser})}
    \cup {APIView_initial(DB, cred, Company_update(DB, cred, x[1], x[2])) :
            x \in CompanyIds \X Names}
    \cup {APIView_initial(DB, cred, Contact_retrieve(DB, cred, pk)) : pk \in ContactIds}
    \cup {APIView_initial(DB, cred, Contact_destroy(DB, cred, pk)) : pk \in ContactIds}
    \cup {APIView_initial(DB, cred, Contact_create(DB, cred, x[1], x[2])) :
            x \in CompanyIds \X (Users \cup {NoUser})}
    \cup {APIView_initial(DB, cred, Contact_update(DB, cred, x[1], x[2])) :
            x \in ContactIds \X CompanyIds}
    \cup {APIView_initial(DB, cred, Application_retrieve(DB, cred, pk)) :
            pk \in ApplicationIds}
    \cup {APIView_initial(DB, cred, Application_destroy(DB, cred, pk)) :
            pk \in ApplicationIds}
    \cup {APIView_initial(DB, cred, Application_create(DB, cred, d)) :
            d \in ApiCreatePayloads}
    \cup {APIView_initial(DB, cred, Application_update(DB, cred, x[1], x[2])) :
            x \in ApplicationIds \X ApiPayloads}
    \cup {APIView_initial(DB, cred, Note_retrieve(DB, cred, pk)) : pk \in ApiNoteIds}
    \cup {APIView_initial(DB, cred, Note_destroy(DB, cred, pk)) : pk \in ApiNoteIds}
    \cup {APIView_initial(DB, cred, Note_create(DB, cred, x[1], x[2], x[3])) :
            x \in (ApplicationIds \cup {NoKey, 0}) \X (ApiNoteIds \cup {NoKey})
                     \X ApiTexts}
    \cup {APIView_initial(DB, cred, Note_update(DB, cred, x[1], x[2], x[3])) :
            x \in ApiNoteIds \X (ApiNoteIds \cup {NoKey, NullKey}) \X ApiTexts}

\* C12: a request without a valid credential to any list, retrieve, create,
\* update or delete of Company, Contact, Application or Note is answered
\* 401 with an empty body, the same for every id and payload (no query and
\* no ownership check has run), and leaves the database as it was.
C12_AnonymousIsUnauthorized ==
    Responses(Anonymous) = {Result(DB, "401_UNAUTHORIZED", {}, {}, {})}

\* alice owns a Company, a Contact, an Application and a note, and the
\* unauthenticated delete of her Application and retrieve of her note are
\* answered 401.
C12_Witness ==
    /\ Company_list(DB, "alice").ids # {}
    /\ Contact_list(DB, "alice", NoKey).ids # {}
    /\ 1 \in Application_list(DB, "alice").ids
    /\ 1 \in Note_list(DB, "alice").ids
    /\ APIView_initial(DB, Anonymous, Application_destroy(DB, Anonymous, 1)).status
          = "401_UNAUTHORIZED"
    /\ APIView_initial(DB, Anonymous, Note_retrieve(DB, Anonymous, 1)).status
          = "401_UNAUTHORIZED"

(* ------------------------------ companies ----------------------------- *)

\* C13: no two distinct Companies have the same owner and the same name.
C13_OwnerNameUnique ==
    \A c1 \in DOMAIN companies, c2 \in DOMAIN companies :
        (companies[c1].user = companies[c2].user
            /\ companies[c1].name = companies[c2].name) => c1 = c2

\* C14: a Company create, or a rename, that would give the requesting user
\* two Companies of one name is answered 400 with an error on the name
\* field, and the database stays as it was.
C14_DuplicateNameIsValidationError ==
    \A u \in Users, name \in Names :
        /\ (\E c \in Company_get_queryset(DB, u) : companies[c].name = name) =>
              LET r == Company_create(DB, u, name, NoUser) IN
              /\ r.status = "400_BAD_REQUEST"
              /\ r.errors # {}
              /\ r.db = DB
        /\ \A pk \in Company_get_queryset(DB, u) :
              (\E c \in Company_get_queryset(DB, u) \ {pk} : companies[c].name = name) =>
                 LET r == Company_update(DB, u, pk, name) IN
                 /\ r.status = "400_BAD_REQUEST"
                 /\ r.errors # {}
                 /\ r.db = DB

(* ------------------------------ deletions ----------------------------- *)

\* C15: deleting a Company deletes every Contact of it, every Application
\* referencing it and every Note of those Applications, and no other
\* Contact, Application or Note.
C15_CompanyDeleteCascades ==
    \A u \in Users :
        \A pk \in Company_get_queryset(DB, u) :
            LET r == Company_destroy(DB, u, pk)
                as == {a \in DOMAIN applications : applications[a].company = pk}
            IN /\ r.status = "204_NO_CONTENT"
               /\ DOMAIN r.db.companies = DOMAIN companies \ {pk}
               /\ DOMAIN r.db.contacts =
                     {c \in DOMAIN contacts : contacts[c].company # pk}
               /\ DOMAIN r.db.applications = DOMAIN applications \ as
               /\ DOMAIN r.db.notes =
                     {n \in DOMAIN notes : notes[n].application \notin as}

\* alice's Company has a Contact and an Application with a note, and her
\* delete of the Company is accepted.
C15_Witness ==
    \E pk \in Company_get_queryset(DB, "alice") :
        /\ \E c \in DOMAIN contacts : contacts[c].company = pk
        /\ \E n \in DOMAIN notes : applications[notes[n].application].company = pk
        /\ Company_destroy(DB, "alice", pk).status = "204_NO_CONTENT"
        /\ Company_destroy(DB, "alice", pk).db.notes = <<>>

\* C16: deleting a Contact deletes no Application: every Application that
\* referenced it is still there with its contact cleared and its other
\* fields as they were, every other Application is as it was, and no note
\* changes.
C16_ContactDeleteClearsReference ==
    \A u \in Users :
        \A pk \in Contact_get_queryset(DB, u, NoKey) :
            LET r == Contact_destroy(DB, u, pk) IN
            /\ r.status = "204_NO_CONTENT"
            /\ DOMAIN r.db.contacts = DOMAIN contacts \ {pk}
            /\ DOMAIN r.db.applications = DOMAIN applications
            /\ \A a \in DOMAIN applications :
                  r.db.applications[a] =
                     IF applications[a].contact = pk
                     THEN [applications[a] EXCEPT !.contact = NullRef]
                     ELSE applications[a]
            /\ r.db.notes = notes
            /\ r.db.companies = companies

\* alice's Application with a note references her Contact, and her delete
\* of the Contact is accepted.
C16_Witness ==
    \E pk \in Contact_get_queryset(DB, "alice", NoKey) :
        /\ \E n \in DOMAIN notes : applications[notes[n].application].contact = pk
        /\ Contact_destroy(DB, "alice", pk).status = "204_NO_CONTENT"

(* --------------------- more on the notes of an Application ------------ *)

\* C17: an accepted Application update whose payload carries the notes key
\* with an empty list deletes every note of that Application (and no note
\* of another one).
C17_EmptyListDeletesAll ==
    \A u \in Users :
        \A pk \in Application_get_queryset(DB, u), d \in NotesPayloads :
            (d.has_notes /\ d.notes = <<>> /\ Application_errors(DB, u, d) = {}) =>
                LET r == Application_update(DB, u, pk, d) IN
                /\ r.status = "200_OK"
                /\ Notes_of(r.db.notes, pk) = {}
                /\ \A n \in DOMAIN notes \ Notes_of(notes, pk) :
                      n \in DOMAIN r.db.notes /\ r.db.notes[n] = notes[n]

\* alice's Application 1 has two notes, bob's Application 2 has none, and
\* alice's PATCH of Application 1 with "notes": [] is accepted.
C17_Witness ==
    /\ Cardinality(Notes_of(notes, 1)) = 2
    /\ \E d \in NotesPayloads :
          /\ d.partial /\ d.has_notes /\ d.notes = <<>>
          /\ Application_update(DB, "alice", 1, d).status = "200_OK"
          /\ Application_update(DB, "alice", 1, d).db.notes = <<>>

\* L is the full notes list of Application pk: it names every current note
\* by its id, each once, with the text the note has, and nothing else.
Full_list(pk, L) ==
    /\ Without_id(L) = {}
    /\ Ids_in(L) = Notes_of(notes, pk)
    /\ Len(L) = Cardinality(Notes_of(notes, pk))
    /\ \A i \in 1..Len(L) : L[i].text = notes[L[i].id].text

\* The rows of Application pk's notes in a notes table.
Rows_of(ns, pk) == [n \in Notes_of(ns, pk) |-> ns[n]]

\* C18: applying the full notes list of an Application (every current note
\* named by its id, texts unchanged) twice in succession leaves after the
\* second update the very note set the first one left: the same ids, texts
\* and creation timestamps.
C18_ReconciliationIdempotent ==
    \A u \in Users :
        \A pk \in Application_get_queryset(DB, u), d \in NotesPayloads :
            (/\ d.has_notes
             /\ Application_errors(DB, u, d) = {}
             /\ Full_list(pk, d.notes)) =>
                LET r1 == Application_update(DB, u, pk, d)
                    r2 == Application_update(r1.db, u, pk, d)
                IN /\ r1.status = "200_OK"
                   /\ r2.status = "200_OK"
                   /\ Rows_of(r2.db.notes, pk) = Rows_of(r1.db.notes, pk)

(* ----------------------- validation of an Application ----------------- *)

\* The six states a status may be in.
SixStates == {"DRAFT", "APPLIED", "INTERVIEW", "OFFER", "REJECTED", "WITHDRAWN"}

\* C19: an Application create that leaves out the company reference is
\* answered 400 naming company_id, one whose status is none of the six
\* states is answered 400 naming status, and neither creates an Application.
C19_CreateValidatesCompanyAndStatus ==
    \A u \in Users, d \in StatusCreatePayloads :
        LET r == Application_create(DB, u, d) IN
        /\ d.company_id = NoKey =>
              /\ r.status = "400_BAD_REQUEST"
              /\ "company_id" \in r.errors
              /\ r.db = DB
        /\ d.status \notin SixStates \cup {NoStatus} =>
              /\ r.status = "400_BAD_REQUEST"
              /\ "status" \in r.errors
              /\ r.db = DB

\* alice has an Application already; her create with a job title and no
\* company_id is refused for company_id alone, and her create with her
\* Company and the status INVALID_STATUS_VALUE for status alone.
C19_Witness ==
    /\ Application_list(DB, "alice").ids # {}
    /\ \E d \in StatusCreatePayloads :
          /\ d.company_id = NoKey /\ d.job_title = "dev" /\ d.status = "APPLIED"
          /\ Application_create(DB, "alice", d).errors = {"company_id"}
    /\ \E d \in StatusCreatePayloads :
          /\ d.company_id = 1 /\ d.job_title = "dev"
          /\ d.status = "INVALID_STATUS_VALUE"
          /\ Application_create(DB, "alice", d).errors = {"status"}

\* C20: the status of every Application is one of DRAFT, APPLIED,
\* INTERVIEW, OFFER, REJECTED and WITHDRAWN, no create or update stores
\* another one, and an Application created without a status is a DRAFT.
C20_StatusIsOneOfSix ==
    /\ \A a \in DOMAIN applications : applications[a].status \in SixStates
    /\ \A u \in Users, d \in StatusPayloads :
          /\ \A pk \in ApplicationIds :
                LET r == Application_update(DB, u, pk, d) IN
                \A a \in DOMAIN r.db.applications :
                    r.db.applications[a].status \in SixStates
          /\ ~d.partial =>
                LET r == Application_create(DB, u, d) IN
                \A a \in r.ids :
                    /\ r.db.applications[a].status \in SixStates
                    /\ d.status = NoStatus => r.db.applications[a].status = "DRAFT"

\* alice has an Application with an OFFER, bob one created without a
\* status, and alice's PATCH with the status INVALID_STATUS_VALUE is
\* refused.
C20_Witness ==
    /\ \E a \in Application_get_queryset(DB, "alice") :
          /\ applications[a].status = "OFFER"
          /\ \E d \in StatusPayloads :
                /\ d.partial /\ d.status = "INVALID_STATUS_VALUE"
                /\ Application_update(DB, "alice", a, d).status = "400_BAD_REQUEST"
    /\ \E a \in Application_get_queryset(DB, "bob") : applications[a].status = "DRAFT"
    /\ \E d \in StatusCreatePayloads :
          /\ d.status = NoStatus
          /\ Application_create(DB, "bob", d).status = "201_CREATED"

(* ------------------------- registration and login --------------------- *)

\* C21: a registration whose password and repeated password differ is
\* answered 400 with the key 'error' in the body, and stores no account and
\* no token.
C21_MismatchIsRejected ==
    \A data \in RegistrationPayloads :
        Passwords_differ(data) =>
            LET r == Registration_post(AUTH, data) IN
            /\ r.status = "400_BAD_REQUEST"
            /\ "error" \in r.errors
            /\ r.auth = AUTH

\* The accounts a login with this email and password is meant for.
Accounts_of(email, password) ==
    {i \in DOMAIN accounts : /\ accounts[i].email = email
                             /\ Check_password(password, accounts[i].password)}

\* C22: a login succeeds only for the email of an account together with
\* that account's password, and then answers with the one token of that
\* account, the same at the next login; a login with an unknown email or
\* with a wrong password is answered 400 "Invalid email or password." and
\* stores no token.
C22_LoginContract ==
    \A email \in Emails, password \in Passwords :
        LET r == Login_post(AUTH, email, password) IN
        /\ r.status = "200_OK" =>
              \E i \in Accounts_of(email, password) :
                  /\ r.token = r.auth.tokens[i]
                  /\ \A k \in DOMAIN tokens : r.auth.tokens[k] = tokens[k]
                  /\ Login_post(r.auth, email, password).token = r.token
        /\ Accounts_of(email, password) = {} =>
              /\ r.status = "400_BAD_REQUEST"
              /\ r.detail = InvalidLogin
              /\ r.auth = AUTH

\* C23: a registration with an email some account already has fails and
\* stores no account, and no two accounts have the same email, whatever the
\* order in which the statements of concurrent registrations ran.
C23_EmailsStayUnique ==
    /\ \A data \in RegistrationPayloads :
           Users_with_email(AUTH, data.email) # {} =>
               /\ Registration_post(AUTH, data).status # "201_CREATED"
               /\ Registration_post(AUTH, data).auth = AUTH
    /\ \A i, j \in DOMAIN accounts :
           i # j => accounts[i].email # accounts[j].email

(* ---------------------- descriptors of a notes list ------------------- *)

\* The descriptor carries an identifier and no current note of Application
\* pk has it.
Unmatched(pk, nd) == nd.id # NoKey /\ nd.id \notin Notes_of(notes, pk)

\* The payload without its unmatched descriptors.
Drop_unmatched(pk, d) ==
    [d EXCEPT !.notes = SelectSeq(@, LAMBDA nd : ~Unmatched(pk, nd))]

\* C24: a descriptor whose identifier matches no current note of the
\* Application being updated creates no note and raises no error, and the
\* rest of the update proceeds: the update is accepted and leaves the
\* database the same update without these descriptors leaves.
C24_UnmatchedIdIsIgnored ==
    \A u \in Users :
        \A pk \in Application_get_queryset(DB, u), d \in NotesPayloads :
            (/\ d.has_notes
             /\ Application_errors(DB, u, d) = {}
             /\ \E i \in 1..Len(d.notes) : Unmatched(pk, d.notes[i])) =>
                LET r == Application_update(DB, u, pk, d) IN
                /\ r.status = "200_OK"
                /\ r.db = Application_update(DB, u, pk, Drop_unmatched(pk, d)).db

\* C25: when the identifier of a descriptor matches a current note of the
\* Application, the update changes only that note's text: the note is
\* still there under its identifier, with the creation timestamp and the
\* parent Application it had, and with the text of one of the descriptors
\* that name it.
C25_MatchChangesOnlyText ==
    \A u \in Users :
        \A pk \in Application_get_queryset(DB, u), d \in NotesPayloads :
            (d.has_notes /\ Application_errors(DB, u, d) = {}) =>
                LET after == Application_update(DB, u, pk, d).db.notes IN
                \A n \in Ids_in(d.notes) \cap Notes_of(notes, pk) :
                    /\ n \in DOMAIN after
                    /\ after[n].created_at = notes[n].created_at
                    /\ after[n].application = notes[n].application
                    /\ \E i \in 1..Len(d.notes) :
                          d.notes[i].id = n /\ after[n].text = d.notes[i].text

\* C26: an update with valid scalar fields is accepted when a descriptor of
\* its notes list carries the identifier of a current note of the
\* Application and the empty text, and stores the empty text on that note
\* (no other descriptor naming it); and it is accepted when a descriptor
\* carries neither identifier nor text, and then creates a note of the
\* Application whose text is the empty string.
C26_EmptyTextIsAccepted ==
    \A u \in Users :
        \A pk \in Application_get_queryset(DB, u), d \in TextPayloads :
            (/\ d.has_notes
             /\ Application_errors(DB, u, [d EXCEPT !.notes = <<>>]) = {}) =>
                LET r == Application_update(DB, u, pk, d) IN
                \A i \in 1..Len(d.notes) :
                    LET nd == d.notes[i] IN
                    /\ (/\ nd.id \in Notes_of(notes, pk)
                        /\ nd.text = Blank
                        /\ \A j \in 1..Len(d.notes) : d.notes[j].id = nd.id => j = i) =>
                           /\ r.status = "200_OK"
                           /\ nd.id \in DOMAIN r.db.notes
                           /\ r.db.notes[nd.id].text = Blank
                    /\ (nd.id = NoKey /\ nd.text = NoText) =>
                           /\ r.status = "200_OK"
                           /\ \E n \in Notes_of(r.db.notes, pk) \ DOMAIN notes :
                                 r.db.notes[n].text = Blank

C28_DeletesOnlyLoadedNotes ==
    [][(upd.pc = "loop" /\ upd'.pc = "save") =>
          \A n \in DOMAIN notes :
              notes[n].created_at > upd.pre.clock => n \in DOMAIN notes']_vars

(* --------------------------- owners of records ------------------------ *)

\* C29: no step of the API changes the owner of a stored Company, Contact
\* or Application: while a row exists (primary keys are never handed out
\* twice) its owner is the one it was stored with, which by C11 is the
\* identity that created it.
C29_OwnerNeverChanges ==
    [][/\ \A c \in DOMAIN companies \cap DOMAIN companies' :
             companies'[c].user = companies[c].user
       /\ \A c \in DOMAIN contacts \cap DOMAIN contacts' :
             contacts'[c].user = contacts[c].user
       /\ \A a \in DOMAIN applications \cap DOMAIN applications' :
             applications'[a].user = applications[a].user]_vars

\* alice's Company, Contact and Application have each been updated, and
\* her updates of them whose bodies name bob as the owner are accepted.
C29_Witness ==
    \E co \in DOMAIN companies, ct \in DOMAIN contacts, a \in DOMAIN applications :
        /\ companies[co].user = "alice" /\ companies[co].name = "initech"
        /\ contacts[ct].user = "alice"
        /\ applications[a].user = "alice" /\ applications[a].job_title = "ops"
        /\ Company_update_payload(DB, "alice", co, "acme", "bob").status = "200_OK"
        /\ Contact_update_payload(DB, "alice", ct, co, "bob").status = "200_OK"
        /\ \E d \in OwnerUpdatePayloads :
              d.user = "bob" /\ Application_update(DB, "alice", a, d).status = "200_OK"

(* --------------------------- referential integrity -------------------- *)

\* C30: in every reachable state, whatever requests ran between the
\* statements of an update, every Note references a stored Application,
\* every Contact a stored Company, every Application a stored Company, and
\* the contact of an Application is absent or a stored Contact.
C30_ReferencesResolve ==
    /\ \A n \in DOMAIN notes : notes[n].application \in DOMAIN applications
    /\ \A c \in DOMAIN contacts : contacts[c].company \in DOMAIN companies
    /\ \A a \in DOMAIN applications :
          /\ applications[a].company \in DOMAIN companies
          /\ applications[a].contact = NullRef
                \/ applications[a].contact \in DOMAIN contacts

\* alice's update of Application 1 stands before a write of a note or of
\* the Application itself, and the Application, or the Contact the payload
\* names, has been deleted since the update began.
C30_Witness ==
    /\ upd.pc \in {"loop", "save"}
    /\ \/ upd.pk \notin DOMAIN applications /\ upd.rest # <<>>
       \/ /\ upd.pc = "save"
          /\ upd.data.contact_id # NoKey
          /\ upd.data.contact_id \notin DOMAIN contacts

=============================================================================
